---- MODULE Spec2Model ----
(***************************************************************************)
(* Model of the bitmap block allocator of src/alloc.c (alloc_init, alloc,  *)
(* free_mem, clear_posion) as a state machine.                             *)
(*                                                                         *)
(* Addresses are byte offsets from the pool base `mem`; a block is 16      *)
(* bytes, and a block holds two 64-bit words.  The pool and the bitmap are *)
(* anonymous mmap regions: they are zero filled and readable and writable  *)
(* up to the end of their page, so an access past the requested length but *)
(* inside the page behaves like an access to ordinary zeroed memory.       *)
(* The bounds below keep every block index under 31, so that the shift     *)
(* ((uint8_t)1) << blkid of IS_FREE and MARK is always a defined int       *)
(* shift.                                                                  *)
(***************************************************************************)
EXTENDS Integers, Naturals, Sequences, FiniteSets, TLC

(* ---------------------------- bounds ----------------------------------- *)
\* largest number of payload blocks a request asks for
MaxPayload == 1
\* number of calls of alloc_init and of successful calls of alloc during a
\* run, taken together
MaxCalls == 5
\* number of stores the caller makes into the pool during a run
MaxWrites == 1
\* number of seconds the clock may advance during a run
MaxTicks == 1

(* ------------------------ program constants ---------------------------- *)
\* value of time(0) at the start of the run (seconds since the epoch)
Epoch == 1700000000
\* blocks in one page of the pool mapping (4096 / 16)
PageBlocks == 256
\* the null pointer, as a value distinct from every pool offset
NULL == -1

\* pool sizes handed to alloc_init
PoolSizes == {64, 136}
\* request sizes handed to alloc: the multiples of 16 up to the largest
\* request, and the sizes one above a multiple that round up to such a request
Sizes == {s \in 0..(16 * MaxPayload) : s % 16 \in {0, 1}}
\* values the caller stores into the words it writes
UserVals == {0, 2}

VARIABLES memp, bitmapp, mem, bitmap, blocks, poison, clock, crashed,
          live, leaked, allocs, writes, last, rt,
          bmsz, given, ovr, inits

vars == <<memp, bitmapp, mem, bitmap, blocks, poison, clock, crashed,
          live, leaked, allocs, writes, last, rt, bmsz, given, ovr, inits>>

(* ----------------------- sizes and block counts ------------------------ *)
\* alloc_init, alloc: round a byte count up to a multiple of 16
RoundUp16(n) == IF n % 16 # 0 THEN n + (16 - (n % 16)) ELSE n

\* alloc: blk = (sz / 16) + 2 after the rounding
BlkOf(sz) == (RoundUp16(sz) \div 16) + 2

\* alloc_init: blocks = pool / 16 after the rounding
BlocksOf(pool) == RoundUp16(pool) \div 16

\* alloc_init: bitmap length in bytes
BitmapSz(pool) == IF RoundUp16(pool) \div 128 = 0 THEN 1 ELSE RoundUp16(pool) \div 128

MaxBlk == BlkOf(16 * MaxPayload)
MaxBlocks == BlocksOf(136)
\* highest block index the model touches, and the modelled part of the pages
MemTop == MaxBlocks + MaxBlk + 1
BitmapTop == MemTop \div 8

(* ----------------------------- bit helpers ----------------------------- *)
Pow2(k) == 2 ^ k

\* bit k of the non-negative value x
Bit(x, k) == (x \div Pow2(k)) % 2

\* a ^ b on the low 8 bits (the result of ^= is stored into a uint8_t)
Xor8(a, b) ==
    LET d(k) == ((Bit(a, k) + Bit(b, k)) % 2) * Pow2(k)
    IN d(0) + d(1) + d(2) + d(3) + d(4) + d(5) + d(6) + d(7)

\* the mask of MARK: (((uint8_t)1) << blkid) - 1
MarkMask(blkid) == Pow2(blkid) - 1

\* the macro IS_FREE: (bitmap[blkid / 8] & (1 << blkid)) == 0
IS_FREE(bm, blkid) == Bit(bm[blkid \div 8], blkid) = 0

\* the macro MARK: bitmap[blkid / 8] ^= ((1 << blkid) - 1)
MARK(bm, blkid) ==
    [bm EXCEPT ![blkid \div 8] = Xor8(@, MarkMask(blkid) % 256)]

\* MARK(j) for j = lo, lo+1, ..., hi in that order
RECURSIVE MarkRange(_, _, _)
MarkRange(bm, lo, hi) ==
    IF lo > hi THEN bm ELSE MarkRange(MARK(bm, lo), lo + 1, hi)

(* ------------------------------- alloc --------------------------------- *)
\* faulty variant of PoisonBlocks: alloc without the poison test
PoisonIgnored(p) == FALSE

\* alloc: if (poison) return 0
PoisonBlocks(p) == p # 0

\* alloc: the inner loop, j = i .. i + blk - 1 are all IS_FREE
RunIsFree(bm, i, blk) == \A j \in i..(i + blk - 1) : IS_FREE(bm, j)

\* alloc: the block indices the outer loop accepts
Candidates(bm, n, blk) ==
    {i \in 0..(n - 1) : IS_FREE(bm, i) /\ RunIsFree(bm, i, blk)}

\* alloc: the outer loop runs upwards and returns at the first hit
FirstFit(bm, n, blk) ==
    CHOOSE i \in Candidates(bm, n, blk) :
        \A k \in Candidates(bm, n, blk) : i <= k

\* alloc: last index of the marking loop, j < i + blk + 1
AllocMarkLast(i, blk) == i + blk

\* faulty variant of WriteGuards: the footer lands one block too far
WriteGuardsLate(m, i, blk, magic) ==
    [[m EXCEPT ![i] = <<blk, magic>>]
        EXCEPT ![i + blk] = <<magic, magic>>]

\* alloc: header {blk, magic} at block i, then magic twice at block i+blk-1
WriteGuards(m, i, blk, magic) ==
    [[m EXCEPT ![i] = <<blk, magic>>]
        EXCEPT ![i + blk - 1] = <<magic, magic>>]

\* alloc: return mem + ((i + 1) * 16)
PtrOf(i) == (i + 1) * 16

(* ------------------------------ free_mem ------------------------------- *)
\* free_mem: block that holds the two words just before data
HeaderBlock(data) == (data - 16) \div 16

\* free_mem: block of ptr = data + (blk - 2) * 16
FooterBlock(data, blk) == (data \div 16) + blk - 2

\* faulty variant of FreeMarkLast: the clearing loop stops one block early,
\* j < offset + blk
FreeMarkShort(offset, blk) == offset + blk - 1

\* free_mem: last index of the clearing loop, j < offset + blk + 1
FreeMarkLast(offset, blk) == offset + blk

\* the two words of block b of the pool page; the page is zero beyond the
\* blocks the program has written
Rd(m, b) == IF b <= MemTop THEN m[b] ELSE <<0, 0>>

\* free_mem: the word the header's magic is compared with
FooterWord(m, fb) == Rd(m, fb)[1]

\* free_mem: magic != *ptr
GuardMismatch(magic, footer) == magic # footer

\* the footer address lies inside the page of the pool mapping
InPage(fb) == fb >= 0 /\ fb < PageBlocks

(* --------------------------- clear_posion ------------------------------ *)
\* faulty variant of ClearedPoison: clear_posion leaves the flag as it is
PoisonKept(p) == p

\* clear_posion: poison = 0
ClearedPoison(p) == 0

(* -------------------------- ghost bookkeeping -------------------------- *)
\* the run of block indices of an allocation record
Run(a) == a.i..(a.i + a.blk - 1)

\* the last call of the allocator's interface, its argument and its result
Op(op, arg, ret) == [op |-> op, arg |-> arg, ret |-> ret]

\* round-trip tracker: st = 1 after a successful alloc (p, sz, and bm the
\* bitmap before it), st = 2 after the free_mem(p) that directly follows it;
\* after tells that the alloc itself directly followed such a pair, whose
\* pointer and size were q and qsz, and cleared that it directly followed a
\* clear_posion.  The passing of time does not interrupt a sequence of calls.
NoTrip == [st |-> 0, p |-> NULL, sz |-> 0, bm |-> <<>>, after |-> FALSE,
           q |-> NULL, qsz |-> 0, cleared |-> FALSE]

\* bmsz is the length in bytes alloc_init asked for the bitmap, given the set
\* of guard values alloc has handed out, ovr tells that the caller has stored
\* outside a payload. A live allocation is the record of its header index i,
\* its block count blk and its serial number n: the same pointer can be
\* handed out again while it is live, and is then live twice. inits counts the
\* calls of alloc_init; the caller does not use the pointers into a replaced
\* pool any more. mem holds the contents of the pool the live pointers point
\* into: after an alloc_init whose pool mmap failed that is still the old
\* pool, while the pointer mem of the program is MAP_FAILED (memp = "failed").

(* ----------------------------- alloc_init ------------------------------ *)
\* the pointer mem of the program is not a mapped pool: it is null before
\* the first alloc_init and MAP_FAILED after a failed one
PoolMissing(mp) == mp # "mapped"

\* alloc_init: if (mem == MAP_FAILED) { ...; return; }
InitReturnsEarly(okMem) == ~okMem

(* ------------------------------- Init ---------------------------------- *)
Init ==
    /\ memp = "null"
    /\ bitmapp = "null"
    /\ mem = [b \in 0..MemTop |-> <<0, 0>>]
    /\ bitmap = [k \in 0..BitmapTop |-> 0]
    /\ blocks = 0
    /\ poison = 0
    /\ clock = Epoch
    /\ crashed = FALSE
    /\ live = {}
    /\ leaked = {}
    /\ allocs = 0
    /\ writes = 0
    /\ last = Op("none", 0, 0)
    /\ rt = NoTrip
    /\ bmsz = 0
    /\ given = {}
    /\ ovr = FALSE
    /\ inits = 0

(* ------------------------------ actions -------------------------------- *)
\* alloc_init(pool): okMem and okBm tell whether the two mmap calls succeed.
\* It runs in every state: nothing in it looks at an earlier configuration.
AllocInit(pool, okMem, okBm) ==
    /\ ~crashed
    /\ inits + allocs < MaxCalls
    /\ inits' = inits + 1
    /\ IF InitReturnsEarly(okMem)
       THEN \* mem == MAP_FAILED: message and return; bitmap, blocks and
            \* poison keep their values
            /\ memp' = "failed"
            /\ UNCHANGED <<bitmapp, mem, bitmap, blocks, crashed, bmsz,
                           live, leaked>>
       ELSE IF ~okBm
       THEN \* munmap(mem, pool), then memset(MAP_FAILED, 0, sz) faults
            /\ memp' = "unmapped"
            /\ bitmapp' = "failed"
            /\ crashed' = TRUE
            /\ bmsz' = BitmapSz(pool)
            /\ UNCHANGED <<mem, bitmap, blocks, live, leaked>>
       ELSE \* a fresh pool and a fresh bitmap replace the old ones, which
            \* stay mapped; the allocations of the old pool are not in it
            /\ memp' = "mapped"
            /\ bitmapp' = "mapped"
            /\ live' = {}
            /\ leaked' = {}
            /\ bmsz' = BitmapSz(pool)
            /\ mem' = [b \in 0..MemTop |-> <<0, 0>>]
            /\ bitmap' = [k \in 0..BitmapTop |-> 0]
            /\ blocks' = BlocksOf(pool)
            /\ UNCHANGED crashed
    /\ last' = Op("alloc_init", pool, 0)
    /\ rt' = NoTrip
    /\ UNCHANGED <<poison, clock, allocs, writes, given, ovr>>

\* alloc(sz)
Alloc(sz) ==
    LET blk == BlkOf(sz)
    IN
    /\ ~crashed
    /\ inits + allocs < MaxCalls
    /\ IF PoisonBlocks(poison) \/ Candidates(bitmap, blocks, blk) = {}
       THEN /\ last' = Op("alloc", sz, NULL)
            /\ rt' = NoTrip
            /\ UNCHANGED <<mem, bitmap, live, allocs, given, crashed>>
       ELSE IF PoolMissing(memp)
       THEN \* the run is marked, then the header store through
            \* MAP_FAILED + i * 16 faults
            /\ bitmap' = MarkRange(bitmap, FirstFit(bitmap, blocks, blk),
                                   AllocMarkLast(FirstFit(bitmap, blocks, blk),
                                                 blk))
            /\ crashed' = TRUE
            /\ last' = Op("alloc", sz, NULL)
            /\ rt' = NoTrip
            /\ UNCHANGED <<mem, live, allocs, given>>
       ELSE LET i == FirstFit(bitmap, blocks, blk)
            IN /\ allocs' = allocs + 1
               /\ bitmap' = MarkRange(bitmap, i, AllocMarkLast(i, blk))
               /\ mem' = WriteGuards(mem, i, blk, clock)
               /\ live' = live \cup {[i |-> i, blk |-> blk, n |-> allocs]}
               /\ given' = given \cup {clock}
               /\ last' = Op("alloc", sz, PtrOf(i))
               /\ rt' = [st |-> 1, p |-> PtrOf(i), sz |-> sz, bm |-> bitmap,
                         after |-> (rt.st = 2),
                         q |-> IF rt.st = 2 THEN rt.p ELSE NULL,
                         qsz |-> IF rt.st = 2 THEN rt.sz ELSE 0,
                         cleared |-> (last.op = "clear_posion")]
               /\ UNCHANGED crashed
    /\ UNCHANGED <<memp, bitmapp, blocks, poison, clock, leaked,
                   writes, bmsz, ovr, inits>>

\* free_mem(data) on the pointer of the live allocation a
FreeMem(a) ==
    LET data   == PtrOf(a.i)
        hb     == HeaderBlock(data)
        blk    == mem[hb][1]
        magic  == mem[hb][2]
        fb     == FooterBlock(data, blk)
    IN
    /\ ~crashed
    /\ a \in live
    /\ last' = Op("free_mem", data, 0)
    /\ live' = live \ {a}
    /\ IF ~InPage(fb)
       THEN \* the footer read leaves the pool mapping: the process faults,
            \* or it reads a foreign word and poisons
            /\ \/ crashed' = TRUE /\ UNCHANGED <<poison, leaked>>
               \/ /\ poison' = 1
                  /\ leaked' = leaked \cup {a}
                  /\ UNCHANGED crashed
            /\ rt' = NoTrip
            /\ UNCHANGED bitmap
       ELSE IF GuardMismatch(magic, FooterWord(mem, fb))
       THEN /\ poison' = 1
            /\ leaked' = leaked \cup {a}
            /\ rt' = NoTrip
            /\ UNCHANGED <<bitmap, crashed>>
       ELSE IF PoolMissing(memp)
       THEN \* offset is taken from MAP_FAILED: MARK lands far outside the
            \* bitmap, where it faults or hits foreign memory
            /\ \/ crashed' = TRUE
               \/ UNCHANGED crashed
            /\ rt' = NoTrip
            /\ UNCHANGED <<poison, leaked, bitmap>>
       ELSE /\ bitmap' = MarkRange(bitmap, hb, FreeMarkLast(hb, blk))
            /\ rt' = IF rt.st = 1 /\ rt.p = data
                     THEN [rt EXCEPT !.st = 2] ELSE NoTrip
            /\ UNCHANGED <<poison, leaked, crashed>>
    /\ UNCHANGED <<memp, bitmapp, mem, blocks, clock, allocs, writes,
                   bmsz, given, ovr, inits>>

\* clear_posion()
ClearPosion ==
    /\ ~crashed
    /\ poison' = ClearedPoison(poison)
    /\ last' = Op("clear_posion", 0, 0)
    /\ rt' = NoTrip
    /\ UNCHANGED <<memp, bitmapp, mem, bitmap, blocks, clock, crashed,
                   live, leaked, allocs, writes, bmsz, given, ovr, inits>>

\* the caller stores v into word w of payload block b of a live allocation
WritePayload(a, b, w, v) ==
    /\ ~crashed
    /\ writes < MaxWrites
    /\ a \in live
    /\ b \in (a.i + 1)..(a.i + a.blk - 2)
    /\ mem' = [mem EXCEPT ![b][w] = v]
    /\ writes' = writes + 1
    /\ last' = Op("write", 0, 0)
    /\ rt' = NoTrip
    /\ UNCHANGED <<memp, bitmapp, bitmap, blocks, poison, clock, crashed,
                   live, leaked, allocs, bmsz, given, ovr, inits>>

\* the caller overruns the payload of a live allocation and stores v into
\* word w of its footer block
Overrun(a, w, v) ==
    /\ ~crashed
    /\ writes < MaxWrites
    /\ a \in live
    /\ mem' = [mem EXCEPT ![a.i + a.blk - 1][w] = v]
    /\ writes' = writes + 1
    /\ last' = Op("overrun", 0, 0)
    /\ rt' = NoTrip
    /\ ovr' = TRUE
    /\ UNCHANGED <<memp, bitmapp, bitmap, blocks, poison, clock, crashed,
                   live, leaked, allocs, bmsz, given, inits>>

\* a second passes: time(0) returns the next value
Tick ==
    /\ ~crashed
    /\ clock < Epoch + MaxTicks
    /\ clock' = clock + 1
    /\ UNCHANGED <<memp, bitmapp, mem, bitmap, blocks, poison, crashed,
                   live, leaked, allocs, writes, last, rt, bmsz, given, ovr,
                   inits>>

Next ==
    \/ \E pool \in PoolSizes, okMem \in BOOLEAN, okBm \in BOOLEAN :
           AllocInit(pool, okMem, okBm)
    \/ \E sz \in Sizes : Alloc(sz)
    \/ \E a \in live : FreeMem(a)
    \/ ClearPosion
    \/ \E a \in live, b \in 0..MemTop, w \in 1..2, v \in UserVals :
           WritePayload(a, b, w, v)
    \/ \E a \in live, w \in 1..2, v \in UserVals : Overrun(a, w, v)
    \/ Tick

Spec == Init /\ [][Next]_vars

TypeOK ==
    /\ poison \in {0, 1}
    /\ blocks \in 0..MaxBlocks
    /\ \A k \in 0..BitmapTop : bitmap[k] \in 0..255
    /\ \A a \in live \cup leaked : a.i + a.blk - 1 <= MemTop
    /\ bmsz \in 0..BitmapSz(136)
    /\ given \subseteq Epoch..(Epoch + MaxTicks)
    /\ ovr \in BOOLEAN
    /\ inits \in 0..MaxCalls

(* ======================= properties of the claims ====================== *)
\* the bitmap bit that stands for block j: bit j % 8 of byte j / 8
BitOf(bm, j) == Bit(bm[j \div 8], j % 8)

\* block indices whose bitmap bit the model carries
AllBlocks == 0..MemTop

\* a run of blk blocks with clear bits that lies inside blocks 0..n-1
HasFreeRun(bm, n, blk) ==
    \E i \in 0..(n - blk) : \A j \in i..(i + blk - 1) : BitOf(bm, j) = 0

\* the step is a call of the allocator: time and the caller's stores stand
\* still during it
IsCall == clock' = clock /\ writes' = writes

\* the step is a call of alloc / of free_mem / of clear_posion
IsAlloc == IsCall /\ last'.op = "alloc"
IsFree == IsCall /\ last'.op = "free_mem"
IsClear == IsCall /\ last'.op = "clear_posion"
AllocOk == IsAlloc /\ last'.ret # NULL

\* the live allocation a free_mem step releases
Freed(a) == IsFree /\ a \in live /\ a \notin live' /\ PtrOf(a.i) = last'.arg

\* the header of a still holds the block count alloc wrote
HeaderIntact(a) == mem[a.i][1] = a.blk

\* a word of the footer block of a differs from the magic in its header
FooterCorrupt(a) ==
    \/ mem[a.i + a.blk - 1][1] # mem[a.i][2]
    \/ mem[a.i + a.blk - 1][2] # mem[a.i][2]

\* free_mem took the branch in which the guards match
GuardsMatch(a) ==
    /\ InPage(FooterBlock(PtrOf(a.i), mem[a.i][1]))
    /\ ~GuardMismatch(mem[a.i][2],
                      FooterWord(mem, FooterBlock(PtrOf(a.i), mem[a.i][1])))

\* the allocator is Uninitialized: the pool or the bitmap is not there
Uninit == memp # "mapped" \/ bitmapp # "mapped"

\* C1: the block runs of any two distinct live allocations are disjoint
C1_LiveRunsDisjoint ==
    \A a \in live : \A b \in live : a # b => Run(a) \cap Run(b) = {}

\* C2: when no run of blk clear bits lies inside blocks 0..blocks-1, alloc
\* returns null and leaves the bitmap, the pool and the poison flag unchanged
C2_ExhaustedAllocFails ==
    [][(IsAlloc /\ ~HasFreeRun(bitmap, blocks, BlkOf(last'.arg)))
         => (last'.ret = NULL /\ bitmap' = bitmap /\ mem' = mem
             /\ poison' = poison)]_vars

\* C3: as long as the allocator has its pool and every free_mem matched, the
\* bitmap bit of block j is set if and only if j lies in the run of some live
\* allocation
C3_BitIffLive ==
    (leaked = {} /\ ~crashed /\ ~Uninit) =>
        \A j \in AllBlocks :
            (BitOf(bitmap, j) = 1) <=> (\E a \in live : j \in Run(a))

\* C4: while the poison flag is set, every alloc returns null and leaves the
\* bitmap, the pool and the poison flag unchanged
C4_PoisonedAllocFails ==
    [][(poison = 1 /\ IsAlloc)
         => (last'.ret = NULL /\ bitmap' = bitmap /\ mem' = mem
             /\ poison' = 1)]_vars

\* C4 witness: an alloc has returned null under poison although the bitmap
\* offered a run for it
C4_Witness ==
    /\ poison = 1
    /\ last.op = "alloc"
    /\ last.ret = NULL
    /\ HasFreeRun(bitmap, blocks, BlkOf(last.arg))

\* C5: free_mem of a live allocation one of whose two footer words differs
\* from the header's magic sets the poison flag
C5_CorruptFooterPoisons ==
    [][\A a \in live :
          (Freed(a) /\ HeaderIntact(a) /\ FooterCorrupt(a)) => poison' = 1]_vars

\* C6: a free_mem that finds a guard mismatch sets the poison flag and
\* changes no bitmap bit and no pool word; the blocks of that allocation
\* stay marked occupied and no later alloc hands them out
C6_LeakedStayOccupied ==
    [][/\ \A a \in live :
            (Freed(a) /\ a \in leaked')
                => (poison' = 1 /\ bitmap' = bitmap /\ mem' = mem)
       /\ \A a \in leaked' : \A j \in Run(a) : BitOf(bitmap', j) = 1
       /\ AllocOk =>
            \A a \in leaked :
                Run(a) \cap Run([i |-> HeaderBlock(last'.ret),
                                 blk |-> BlkOf(last'.arg)]) = {}]_vars

\* C7: clear_posion sets the poison flag to false and changes neither the
\* bitmap nor the pool, and the alloc that directly follows it succeeds when
\* the allocator has its pool and the bitmap has a run of blk clear bits
\* inside it
C7_ClearPoisonRecovers ==
    [][/\ IsClear
            => (poison' = 0 /\ bitmap' = bitmap /\ mem' = mem)
       /\ (last.op = "clear_posion" /\ IsAlloc /\ ~Uninit
              /\ HasFreeRun(bitmap, blocks, BlkOf(last'.arg)))
            => last'.ret # NULL]_vars

\* C7 witness: after a poisoning free_mem, clear_posion was called and the
\* alloc directly after it succeeded
C7_Witness ==
    /\ leaked # {}
    /\ last.op = "alloc"
    /\ last.ret # NULL
    /\ poison = 0
    /\ rt.st = 1
    /\ rt.cleared
    /\ HasFreeRun(rt.bm, blocks, BlkOf(last.arg))

\* C8: a successful alloc sets exactly the bits of the blk blocks of the
\* selected run and changes no other bitmap bit
C8_AllocMarksExactlyRun ==
    [][AllocOk =>
         \A j \in AllBlocks :
            BitOf(bitmap', j) =
                IF j \in Run([i |-> HeaderBlock(last'.ret),
                              blk |-> BlkOf(last'.arg)])
                THEN 1 ELSE BitOf(bitmap, j)]_vars

\* C9: when the guards match, free_mem clears exactly blockCount bits from
\* the header's block index on and changes no other bitmap bit (in an
\* allocator that has its pool)
C9_FreeClearsExactlyRun ==
    [][\A a \in live :
          (Freed(a) /\ GuardsMatch(a) /\ ~crashed' /\ ~Uninit) =>
             \A j \in AllBlocks :
                BitOf(bitmap', j) =
                    IF j \in a.i..(a.i + mem[a.i][1] - 1)
                    THEN 0 ELSE BitOf(bitmap, j)]_vars

\* C10: free_mem(p) directly after a successful p = alloc(size) restores the
\* bitmap of before the alloc; a directly following alloc of the same block
\* count returns p again, and one of a smaller block count succeeds with a
\* pointer not above p
C10_RoundTrip ==
    [][/\ rt'.st = 2 => bitmap' = rt'.bm
       /\ (rt.st = 2 /\ IsAlloc /\ BlkOf(last'.arg) <= BlkOf(rt.sz))
            => /\ last'.ret # NULL
               /\ last'.ret <= rt.p
               /\ BlkOf(last'.arg) = BlkOf(rt.sz) => last'.ret = rt.p]_vars

\* C10 witness: an alloc of a smaller block count has succeeded directly
\* after a round trip that released a run in a bitmap with bits set
C10_Witness ==
    /\ rt.st = 1
    /\ rt.after
    /\ BlkOf(rt.sz) < BlkOf(rt.qsz)
    /\ last.ret = rt.p
    /\ rt.p <= rt.q
    /\ \E k \in 0..BitmapTop : rt.bm[k] # 0

\* every block of the run [i, i + blk) has its bitmap bit clear
FreeRunAt(bm, i, blk) == \A j \in i..(i + blk - 1) : BitOf(bm, j) = 0

\* C11: a successful alloc selects the lowest index i in 0..blocks-1 whose
\* run [i, i + blk) has every bitmap bit clear: no lower run of blk free
\* blocks is skipped and the selected run holds no occupied block
C11_FirstFit ==
    [][AllocOk =>
          LET i == HeaderBlock(last'.ret)
              blk == BlkOf(last'.arg)
          IN  /\ i \in 0..(blocks - 1)
              /\ FreeRunAt(bitmap, i, blk)
              /\ \A k \in 0..(i - 1) : ~FreeRunAt(bitmap, k, blk)]_vars

\* C12: the guard a successful alloc writes into its header differs from the
\* guard of every allocation made before, also of one made in the same tick
C12_GuardsUnique ==
    [][AllocOk => mem'[HeaderBlock(last'.ret)][2] \notin given]_vars

\* the block count in a header at block hb is not plausible: below 3, above
\* the total block count, or with the footer block outside blocks 0..n-1
Implausible(blkc, hb, n) == blkc < 3 \/ blkc > n \/ hb + blkc > n

\* C13: free_mem of a pointer whose header holds an implausible block count
\* sets the poison flag, clears no bitmap bit and does not touch the footer
\* address computed from it (so it cannot fault on it), in an allocator that
\* has its pool
C13_BlockCountValidated ==
    [][\A a \in live :
          (Freed(a) /\ ~Uninit /\ Implausible(mem[a.i][1], a.i, blocks)) =>
              (poison' = 1 /\ bitmap' = bitmap /\ ~crashed')]_vars

\* C14: while the pool or the bitmap is missing, blocks is zero, and every
\* alloc called in that state returns null, without a fault, and touches
\* nothing
C14_UninitAllocFails ==
    [][/\ Uninit' => blocks' = 0
       /\ (Uninit /\ IsAlloc) =>
              (/\ last'.ret = NULL
               /\ ~crashed'
               /\ mem' = mem
               /\ bitmap' = bitmap)]_vars

\* ceil(n / d)
CeilDiv(n, d) == (n + d - 1) \div d

\* C15: after a successful alloc_init(pool), with P the pool rounded up to a
\* multiple of 16, blocks = P / 16, the bitmap has max(1, ceil(P / 128))
\* bytes, all zero, and so holds a bit for every block index 0..blocks-1
C15_BitmapCoversBlocks ==
    [][(last'.op = "alloc_init" /\ memp' = "mapped" /\ bitmapp' = "mapped") =>
          LET P == RoundUp16(last'.arg)
          IN  /\ blocks' = P \div 16
              /\ bmsz' = IF CeilDiv(P, 128) < 1 THEN 1 ELSE CeilDiv(P, 128)
              /\ 8 * bmsz' >= blocks'
              /\ \A k \in 0..(bmsz' - 1) : bitmap'[k] = 0]_vars

\* C16: a successful alloc that selects header index i leaves blockCount =
\* blk and the magic in the two words of block i, the magic in both words of
\* the footer block i + blk - 1, and returns pool + 16 * (i + 1), which is a
\* multiple of 16 from the pool base
C16_HeaderFooterPointer ==
    [][AllocOk =>
          LET blk == (last'.arg + 15) \div 16 + 2
              i == FirstFit(bitmap, blocks, BlkOf(last'.arg))
              magic == clock
          IN  /\ mem'[i] = <<blk, magic>>
              /\ mem'[i + blk - 1] = <<magic, magic>>
              /\ last'.ret = 16 * (i + 1)
              /\ last'.ret % 16 = 0]_vars

\* an alloc has succeeded at a header index above 0
C16_Witness ==
    /\ last.op = "alloc"
    /\ last.ret # NULL
    /\ HeaderBlock(last.ret) > 0
    /\ mem[HeaderBlock(last.ret)][1] = BlkOf(last.arg)

(* ================= the block count of alloc on uint64_t ================ *)
\* A uint64_t is held as four 16-bit limbs, least significant first, so that
\* the arithmetic of alloc keeps its width of 64 bits.
MaxLow == 17

Limb == Pow2(16)

\* the limb values next to 0 and next to the top of a limb
LowLimbs == (0..MaxLow) \cup ((Limb - 1 - MaxLow)..(Limb - 1))

\* request sizes: near 0, near 2^64 and near the limb borders in between
U64Sizes ==
    {<<l0, l1, l2, l3>> : l0 \in LowLimbs, l1 \in {0, Limb - 1},
                          l2 \in {0, Limb - 1}, l3 \in {0, Limb - 1}}

\* sz % 16
U64Mod16(x) == x[1] % 16

\* x + k modulo 2^64, for k below 2^16: the carry out of the top limb is lost
U64AddSmall(x, k) ==
    LET s0 == x[1] + k
        s1 == x[2] + s0 \div Limb
        s2 == x[3] + s1 \div Limb
        s3 == x[4] + s2 \div Limb
    IN  <<s0 % Limb, s1 % Limb, s2 % Limb, s3 % Limb>>

\* x / 16
U64Div16(x) ==
    <<x[1] \div 16 + (x[2] % 16) * 4096, x[2] \div 16 + (x[3] % 16) * 4096,
      x[3] \div 16 + (x[4] % 16) * 4096, x[4] \div 16>>

\* x * 16 modulo 2^64
U64Mul16(x) ==
    <<(x[1] * 16) % Limb, (x[2] * 16 + x[1] \div 4096) % Limb,
      (x[3] * 16 + x[2] \div 4096) % Limb, (x[4] * 16 + x[3] \div 4096) % Limb>>

\* x - k modulo 2^64, for k below 2^16
U64SubSmall(x, k) ==
    LET d0 == x[1] - k
        b0 == IF d0 < 0 THEN 1 ELSE 0
        d1 == x[2] - b0
        b1 == IF d1 < 0 THEN 1 ELSE 0
        d2 == x[3] - b1
        b2 == IF d2 < 0 THEN 1 ELSE 0
        d3 == x[4] - b2
    IN  <<d0 % Limb, d1 % Limb, d2 % Limb, d3 % Limb>>

\* x < y
U64Less(x, y) ==
    \/ x[4] < y[4]
    \/ x[4] = y[4] /\ x[3] < y[3]
    \/ x[4] = y[4] /\ x[3] = y[3] /\ x[2] < y[2]
    \/ x[4] = y[4] /\ x[3] = y[3] /\ x[2] = y[2] /\ x[1] < y[1]

\* alloc: if (sz % 16 != 0) { int rem = sz % 16; sz += (16 - rem); }
RoundUp64(sz) ==
    IF U64Mod16(sz) # 0 THEN U64AddSmall(sz, 16 - U64Mod16(sz)) ELSE sz

\* alloc: uint64_t blk = (sz / 16) + 2, for the rounded sz
Blk64(sz) == U64AddSmall(U64Div16(sz), 2)

\* the specification of the block count: a size is drawn, then rounded, then
\* turned into the block count; last holds the size and the value so far
InitBlk ==
    /\ memp = "null"
    /\ bitmapp = "null"
    /\ mem = [b \in 0..MemTop |-> <<0, 0>>]
    /\ bitmap = [k \in 0..BitmapTop |-> 0]
    /\ blocks = 0
    /\ poison = 0
    /\ clock = Epoch
    /\ crashed = FALSE
    /\ live = {}
    /\ leaked = {}
    /\ allocs = 0
    /\ writes = 0
    /\ rt = NoTrip
    /\ bmsz = 0
    /\ given = {}
    /\ ovr = FALSE
    /\ inits = 0
    /\ \E x \in U64Sizes : last = Op("size", x, x)

RoundStep ==
    /\ last.op = "size"
    /\ last' = Op("rounded", last.arg, RoundUp64(last.ret))
    /\ UNCHANGED <<memp, bitmapp, mem, bitmap, blocks, poison, clock, crashed,
                   live, leaked, allocs, writes, rt, bmsz, given, ovr, inits>>

BlkStep ==
    /\ last.op = "rounded"
    /\ last' = Op("blk", last.arg, Blk64(last.ret))
    /\ UNCHANGED <<memp, bitmapp, mem, bitmap, blocks, poison, clock, crashed,
                   live, leaked, allocs, writes, rt, bmsz, given, ovr, inits>>

NextBlk == RoundStep \/ BlkStep

SpecBlk == InitBlk /\ [][NextBlk]_vars

\* the payload 16 * (blk - 2) as a number, for a block count below 2^60 + 2
Payload64(blk) == U64Mul16(U64SubSmall(blk, 2))

\* size + 16 does not fit into 64 bits
Within16OfTop(size) == U64Less(U64AddSmall(size, 16), size)

\* C17: for every uint64_t size the block count of alloc gives a payload
\* 16 * (blk - 2) with size <= payload < size + 16, also for sizes within 15
\* of 2^64
C17_BlkCoversSize ==
    last.op = "blk" =>
        /\ ~U64Less(Payload64(last.ret), last.arg)
        /\ \/ Within16OfTop(last.arg)
           \/ U64Less(Payload64(last.ret), U64AddSmall(last.arg, 16))

\* C18: the run a successful alloc selects lies inside the pool, i + blk <=
\* blocks, so that header, footer and bitmap accesses of the call stay
\* within blocks 0..blocks-1 and within the bytes asked for the bitmap
C18_RunInsidePool ==
    [][AllocOk =>
          LET i == HeaderBlock(last'.ret)
              blk == BlkOf(last'.arg)
          IN  /\ i + blk <= blocks
              /\ AllocMarkLast(i, blk) \div 8 < bmsz]_vars

\* C19: while the caller has stored only inside payloads and has released
\* only live pointers, each once, free_mem has not set the poison flag and
\* has not faulted (in an allocator whose one alloc_init succeeded)
C19_NoFalsePoison ==
    [][(IsFree /\ ~ovr /\ ~Uninit /\ inits = 1)
          => (poison' = 0 /\ ~crashed')]_vars

\* C20: once every pointer alloc returned has been released, once for each
\* time it was returned, by a free_mem that found the guards intact, every
\* byte of the bitmap is zero and the poison flag is clear, as in a freshly
\* initialised pool (in an allocator whose one alloc_init succeeded)
C20_NoLeak ==
    (/\ blocks > 0
     /\ ~Uninit
     /\ inits = 1
     /\ allocs > 0
     /\ live = {}
     /\ leaked = {}
     /\ ~ovr
     /\ ~crashed) => (poison = 0 /\ \A k \in 0..BitmapTop : bitmap[k] = 0)

====
